---- MODULE Spec2Model ----
(***************************************************************************)
(* Kaggle MCP server: the competition tool handlers of                     *)
(* src/tools/competitions.py and the credential resolver of src/server.py. *)
(*                                                                         *)
(* Text is a sequence of atoms: a literal chunk of an f-string or of the   *)
(* JSON encoder is one atom, a character of caller or client supplied text *)
(* is one atom.  Python values are records of one shape, [t, s, keys,      *)
(* items]: t is the type tag, s the characters of a str (or of str(x) for  *)
(* a datetime), keys the key or attribute names of a dict or object, items *)
(* the elements of a list or the values of a dict or object.               *)
(***************************************************************************)
EXTENDS Integers, Sequences, FiniteSets, TLC

----------------------------------------------------------------------------
(* Bounds of the model *)

MaxRecords == 2
MaxInvocations == 2

----------------------------------------------------------------------------
(* Python values *)

PyNone == [t |-> "none", s |-> <<>>, keys |-> <<>>, items |-> <<>>]

PyStr(cs) == [t |-> "str", s |-> cs, keys |-> <<>>, items |-> <<>>]

PyDate(cs) == [t |-> "date", s |-> cs, keys |-> <<>>, items |-> <<>>]

PyList(xs) == [t |-> "list", s |-> <<>>, keys |-> <<>>, items |-> xs]

PyDict(ks, vs) == [t |-> "dict", s |-> <<>>, keys |-> ks, items |-> vs]

PyObj(ks, vs) == [t |-> "obj", s |-> <<>>, keys |-> ks, items |-> vs]

\* position of name n in the sequence ks, 0 when absent
IndexOf(ks, n) ==
    IF \E i \in 1..Len(ks) : ks[i] = n
    THEN CHOOSE i \in 1..Len(ks) : ks[i] = n /\ \A j \in 1..(i-1) : ks[j] # n
    ELSE 0

\* bool(v)
Truthy(v) ==
    CASE v.t = "none" -> FALSE
      [] v.t = "str" -> Len(v.s) > 0
      [] v.t \in {"list", "dict"} -> Len(v.items) > 0
      [] OTHER -> TRUE

\* a bound method, as getattr gives for "abc".title
BoundMethod == [t |-> "obj", s |-> <<>>, keys |-> <<>>, items |-> <<>>]

\* getattr(v, name, default): of the names the handlers read, objects carry
\* their attributes, a str carries the method title, dicts and lists none
GetAttr(v, name, default) ==
    IF v.t = "obj" /\ IndexOf(v.keys, name) # 0
    THEN v.items[IndexOf(v.keys, name)]
    ELSE IF v.t = "str" /\ name = "title" THEN BoundMethod
    ELSE default

\* hasattr(v, name)
HasAttr(v, name) ==
    \/ v.t = "obj" /\ IndexOf(v.keys, name) # 0
    \/ v.t = "str" /\ name = "title"

\* isinstance(v, dict) and name in v
DictHas(v, name) == v.t = "dict" /\ IndexOf(v.keys, name) # 0

\* str(v), as characters
PyToStr(v) ==
    CASE v.t \in {"str", "date"} -> v.s
      [] v.t = "none" -> <<"None">>
      [] OTHER -> <<"<object>">>

\* str(x) if x else None
StrOrNone(v) == IF Truthy(v) THEN PyStr(PyToStr(v)) ELSE PyNone

----------------------------------------------------------------------------
(* json.dumps(v, indent=2) *)

RECURSIVE Flatten(_)
Flatten(ss) == IF ss = <<>> THEN <<>> ELSE Head(ss) \o Flatten(Tail(ss))

\* the JSON encoder's escaping of one character
EscapeChar(c) ==
    CASE c = "\"" -> <<"\\", "\"">>
      [] c = "\\" -> <<"\\", "\\">>
      [] OTHER -> <<c>>

JsonString(cs) ==
    <<"\"">> \o Flatten([i \in 1..Len(cs) |-> EscapeChar(cs[i])]) \o <<"\"">>

\* newline followed by the indentation of nesting depth d
Indent(d) == <<"\n">> \o [i \in 1..d |-> "  "]

JsonKey(k) == <<"\"" \o k \o "\": ">>

RECURSIVE JsonSerializable(_)
JsonSerializable(v) ==
    CASE v.t \in {"none", "str"} -> TRUE
      [] v.t \in {"list", "dict"} ->
            \A i \in 1..Len(v.items) : JsonSerializable(v.items[i])
      [] OTHER -> FALSE

RECURSIVE JsonEncode(_, _)
JsonEncode(v, d) ==
    CASE v.t = "none" -> <<"null">>
      [] v.t = "str" -> JsonString(v.s)
      [] v.t = "list" ->
            IF Len(v.items) = 0 THEN <<"[]">>
            ELSE <<"[">>
                 \o Flatten([i \in 1..Len(v.items) |->
                       (IF i > 1 THEN <<",">> ELSE <<>>)
                       \o Indent(d + 1) \o JsonEncode(v.items[i], d + 1)])
                 \o Indent(d) \o <<"]">>
      [] v.t = "dict" ->
            IF Len(v.items) = 0 THEN <<"{}">>
            ELSE <<"{">>
                 \o Flatten([i \in 1..Len(v.items) |->
                       (IF i > 1 THEN <<",">> ELSE <<>>)
                       \o Indent(d + 1) \o JsonKey(v.keys[i])
                       \o JsonEncode(v.items[i], d + 1)])
                 \o Indent(d) \o <<"}">>
      [] OTHER -> <<>>

\* the TypeError json.dumps raises on a value it cannot encode
JsonTypeError == <<"Object is not JSON serializable">>

\* json.dumps(v, indent=2): the text, or the exception raised
JsonDumps(v) ==
    IF JsonSerializable(v)
    THEN [ok |-> TRUE, out |-> JsonEncode(v, 0)]
    ELSE [ok |-> FALSE, out |-> JsonTypeError]

----------------------------------------------------------------------------
(* Exceptions and the text of an error result *)

\* f"<prefix>{str(e)}"
ErrorText(prefix, msg) == <<prefix>> \o msg

\* iterating a value in a for loop: None and plain objects are not iterable
IsIterable(v) == v.t \in {"list", "dict", "str"}

IterItems(v) ==
    CASE v.t = "list" -> v.items
      [] v.t = "dict" -> [i \in 1..Len(v.keys) |-> PyStr(<<v.keys[i]>>)]
      [] OTHER -> [i \in 1..Len(v.s) |-> PyStr(<<v.s[i]>>)]

NotIterableError == <<"object is not iterable">>

----------------------------------------------------------------------------
(* The projections of the handlers *)

CompetitionFields ==
    <<"ref", "title", "url", "category", "deadline", "reward", "teamCount",
      "userHasEntered", "description">>

\* CompetitionRecord with reward read through a default of "" instead of None
CompetitionRecord_EmptyDefault(comp) ==
    PyDict(CompetitionFields,
           [i \in 1..Len(CompetitionFields) |->
               CASE CompetitionFields[i] = "deadline" ->
                        StrOrNone(GetAttr(comp, "deadline", PyNone))
                 [] CompetitionFields[i] = "reward" ->
                        GetAttr(comp, "reward", PyStr(<<>>))
                 [] OTHER -> GetAttr(comp, CompetitionFields[i], PyNone)])

\* the dict built for one competition in competitions_list
CompetitionRecord(comp) ==
    PyDict(CompetitionFields,
           [i \in 1..Len(CompetitionFields) |->
               IF CompetitionFields[i] = "deadline"
               THEN StrOrNone(GetAttr(comp, "deadline", PyNone))
               ELSE GetAttr(comp, CompetitionFields[i], PyNone)])

DetailFields ==
    CompetitionFields \o <<"evaluationMetric", "isKernelsSubmissionsOnly", "tags">>

\* the dict built by competition_details
DetailRecord(comp) ==
    PyDict(DetailFields,
           [i \in 1..Len(DetailFields) |->
               CASE DetailFields[i] = "deadline" ->
                        StrOrNone(GetAttr(comp, "deadline", PyNone))
                 [] DetailFields[i] = "tags" ->
                        GetAttr(comp, "tags", PyList(<<>>))
                 [] OTHER -> GetAttr(comp, DetailFields[i], PyNone)])

FileFields == <<"name", "size", "creationDate">>

\* the dict built for one file in competition_list_files
FileRecord(f) ==
    PyDict(FileFields,
           [i \in 1..Len(FileFields) |->
               IF FileFields[i] = "creationDate"
               THEN StrOrNone(GetAttr(f, "creationDate", PyNone))
               ELSE GetAttr(f, FileFields[i], PyNone)])

SubmissionFields ==
    <<"ref", "fileName", "date", "description", "status", "publicScore",
      "privateScore">>

\* the dict built for one submission in competition_submissions
SubmissionRecord(sub) ==
    PyDict(SubmissionFields,
           [i \in 1..Len(SubmissionFields) |->
               IF SubmissionFields[i] = "date"
               THEN StrOrNone(GetAttr(sub, "date", PyNone))
               ELSE GetAttr(sub, SubmissionFields[i], PyNone)])

LeaderboardFields == <<"teamId", "teamName", "submissionDate", "score", "rank">>

\* the dict built for one leaderboard entry
LeaderboardRecord(entry) ==
    PyDict(LeaderboardFields,
           [i \in 1..Len(LeaderboardFields) |->
               IF LeaderboardFields[i] = "submissionDate"
               THEN StrOrNone(GetAttr(entry, "submissionDate", PyNone))
               ELSE GetAttr(entry, LeaderboardFields[i], PyNone)])

----------------------------------------------------------------------------
(* The handlers past the gate, as functions of the client's outcome        *)
(* r = [raised, val, msg]: the call raised an exception of text msg, or    *)
(* returned val.                                                           *)

\* the try block shared by the three list handlers, projected being the
\* list built by the for loop: the client call, the loop, json.dumps
ProjectAndDump(r, prefix, projected) ==
    IF r.raised THEN ErrorText(prefix, r.msg)
    ELSE IF ~IsIterable(r.val) THEN ErrorText(prefix, NotIterableError)
    ELSE IF JsonDumps(PyList(projected)).ok
    THEN JsonDumps(PyList(projected)).out
    ELSE ErrorText(prefix, JsonDumps(PyList(projected)).out)

competitions_list(r) ==
    ProjectAndDump(r, "Error listing competitions: ",
                   [i \in 1..Len(IterItems(r.val)) |->
                       CompetitionRecord(IterItems(r.val)[i])])

competition_details(r) ==
    IF r.raised THEN ErrorText("Error getting competition details: ", r.msg)
    ELSE LET d == JsonDumps(DetailRecord(r.val))
         IN  IF d.ok THEN d.out
             ELSE ErrorText("Error getting competition details: ", d.out)

competition_list_files(r) ==
    ProjectAndDump(r, "Error listing competition files: ",
                   [i \in 1..Len(IterItems(r.val)) |-> FileRecord(IterItems(r.val)[i])])

competition_submissions(r) ==
    ProjectAndDump(r, "Error listing submissions: ",
                   [i \in 1..Len(IterItems(r.val)) |->
                       SubmissionRecord(IterItems(r.val)[i])])

competition_leaderboard(r) ==
    IF r.raised THEN ErrorText("Error retrieving leaderboard: ", r.msg)
    ELSE LET leaderboard == r.val
             inner ==
                CASE leaderboard.t = "list" ->
                        JsonDumps(PyList([i \in 1..Len(leaderboard.items) |->
                                     LeaderboardRecord(leaderboard.items[i])]))
                  [] leaderboard.t = "dict" -> JsonDumps(leaderboard)
                  [] OTHER -> [ok |-> TRUE, out |-> PyToStr(leaderboard)]
             d == IF DictHas(leaderboard, "submissions")
                  THEN inner
                  ELSE JsonDumps(leaderboard)
         IN  IF d.ok THEN d.out
             ELSE ErrorText("Error retrieving leaderboard: ", d.out)

\* the status message competition_submit builds from the client's response
SubmitStatus(response) ==
    IF HasAttr(response, "message") /\ Truthy(GetAttr(response, "message", PyNone))
    THEN PyToStr(GetAttr(response, "message", PyNone))
    ELSE IF HasAttr(response, "status") /\ Truthy(GetAttr(response, "status", PyNone))
    THEN <<"Submission status: ">> \o PyToStr(GetAttr(response, "status", PyNone))
    ELSE <<"Submission successful.">>

----------------------------------------------------------------------------
(* What the callers and the client can supply *)

\* an exception of the underlying client
ClientError == [raised |-> TRUE, val |-> PyNone, msg |-> <<"4", "0", "3">>]

Returned(v) == [raised |-> FALSE, val |-> v, msg |-> <<>>]

NoOutcome == [raised |-> FALSE, val |-> PyNone, msg |-> <<"-">>]

\* a competition object of the client: its attributes are the projected
\* fields but those in absent; c marks the record and is a character the
\* JSON encoder may have to escape
CompetitionObj(c, absent) ==
    LET ks == SelectSeq(CompetitionFields, LAMBDA f : f \notin absent)
    IN  PyObj(ks, [i \in 1..Len(ks) |->
                     IF ks[i] = "deadline" THEN PyDate(<<"2030-01-01 ", c>>)
                     ELSE PyStr(<<ks[i], c>>)])

CompetitionObjs ==
    { CompetitionObj("\"", {}), CompetitionObj("b", {"reward"}),
      CompetitionObj("c", {"deadline", "title"}) }

RECURSIVE SeqsUpTo(_, _)
SeqsUpTo(S, n) ==
    IF n = 0 THEN { <<>> }
    ELSE LET shorter == SeqsUpTo(S, n - 1)
         IN  shorter \cup { Append(q, x) : q \in shorter, x \in S }

ListOutcomes ==
    { Returned(PyList(q)) : q \in SeqsUpTo(CompetitionObjs, MaxRecords) }
    \cup { Returned(PyNone), ClientError }

\* a sample of ListOutcomes
ListSamples ==
    { Returned(PyList(<<>>)),
      Returned(PyList(<<CompetitionObj("a", {}), CompetitionObj("b", {"reward"})>>)),
      Returned(PyNone), ClientError }

DetailOutcomes ==
    { Returned(CompetitionObj("a", {})),
      Returned(PyObj(<<"ref", "tags">>,
                     <<PyStr(<<"r">>), PyList(<<PyStr(<<"t">>)>>)>>)),
      Returned(PyObj(<<"tags">>, <<PyList(<<PyObj(<<>>, <<>>)>>)>>)),
      ClientError }

FileObj(absent) ==
    LET ks == SelectSeq(FileFields, LAMBDA f : f \notin absent)
    IN  PyObj(ks, [i \in 1..Len(ks) |->
                     IF ks[i] = "creationDate" THEN PyDate(<<"2030-01-02">>)
                     ELSE PyStr(<<ks[i]>>)])

FilesOutcomes ==
    { Returned(PyList(q)) : q \in SeqsUpTo({FileObj({}), FileObj({"size"})}, 1) }
    \cup { ClientError }

SubmissionObj(absent) ==
    LET ks == SelectSeq(SubmissionFields, LAMBDA f : f \notin absent)
    IN  PyObj(ks, [i \in 1..Len(ks) |->
                     IF ks[i] = "date" THEN PyDate(<<"2030-01-03">>)
                     ELSE PyStr(<<ks[i]>>)])

SubmissionsOutcomes ==
    { Returned(PyList(q)) :
        q \in SeqsUpTo({SubmissionObj({}), SubmissionObj({"date"})}, 1) }
    \cup { ClientError }

\* leaderboard entries: as objects of the client and as plain dicts
EntryObj(c) ==
    PyObj(LeaderboardFields \o <<"extra">>,
          [i \in 1..(Len(LeaderboardFields) + 1) |-> PyStr(<<c>>)])

EntryDict(c) ==
    PyDict(LeaderboardFields \o <<"extra">>,
           [i \in 1..(Len(LeaderboardFields) + 1) |-> PyStr(<<c>>)])

LeaderboardLists ==
    { PyList(<<>>), PyList(<<EntryDict("a")>>), PyList(<<EntryObj("a")>>),
      PyList(<<EntryDict("a"), EntryDict("b")>>) }

LeaderboardStrings == { PyStr(<<>>), PyStr(<<"a">>), PyStr(<<"a", "\"">>) }

LeaderboardOutcomes ==
    { Returned(l) : l \in LeaderboardLists }
    \cup { Returned(PyDict(<<"submissions">>, <<l>>)) : l \in LeaderboardLists }
    \cup { Returned(PyDict(<<"other">>, <<PyStr(<<"x">>)>>)) }
    \cup { Returned(v) : v \in LeaderboardStrings }
    \cup { ClientError }

DownloadOutcomes == { Returned(PyNone), ClientError }

SubmitOutcomes ==
    { Returned(PyNone),
      Returned(PyObj(<<"message">>, <<PyStr(<<"o", "k">>)>>)),
      Returned(PyObj(<<"message", "status">>, <<PyStr(<<>>), PyStr(<<"c">>)>>)),
      ClientError }

\* directories and files of the local file system
CallerDirs == { <<"/data">>, <<"/new">> }

TempNames == { <<"/tmp/tmp", ToString(i)>> : i \in 1..MaxInvocations }

InitialDirs == { <<"/data">> }

SubmissionFile == <<"/sub.csv">>

MissingFile == <<"/nofile.csv">>

NoArgs == [path |-> <<>>, file_name |-> <<>>, file_path |-> <<>>]

DownloadArgs ==
    { [path |-> p, file_name |-> f, file_path |-> <<>>] :
        p \in { <<>> } \cup CallerDirs \cup TempNames, f \in { <<>>, <<"f">> } }

SubmitArgs ==
    { [path |-> <<>>, file_name |-> <<>>, file_path |-> p] :
        p \in { SubmissionFile, MissingFile } }

DataOps ==
    { "competitions_list", "competition_details", "competition_list_files",
      "competition_submissions", "competition_leaderboard" }

Operations == DataOps \cup { "competition_download_files", "competition_submit" }

ArgsOf(o) ==
    CASE o = "competition_download_files" -> DownloadArgs
      [] o = "competition_submit" -> SubmitArgs
      [] OTHER -> { NoArgs }

----------------------------------------------------------------------------
(* The tool handlers as a state machine: the host invokes one handler at a *)
(* time; the handler runs the gate, then its body, and returns.            *)

VARIABLES
    pc,             \* position of the handler: idle, gate, body, stat, call, cleanup, done
    op,             \* the operation invoked
    args,           \* its arguments
    inv,            \* number of invocations so far
    authenticated,  \* AuthenticationState: the client is authenticated
    credsValid,     \* the credentials the client finds are accepted
    fs,             \* directories that exist
    files,          \* regular files that exist
    path,           \* the handler's local path
    use_temp,       \* the handler's local use_temp
    resp,           \* outcome of the handler's client call
    calls,          \* client calls made by this invocation, after the gate
    stats,          \* local files inspected by this invocation
    temps,          \* temporary directories created by this invocation
    result,         \* the text returned
    outcome,        \* none, returned, escaped (an exception left the handler)
    created,        \* <<directory, invocation>>: mkdtemp calls of the handlers
    removed,        \* <<directory, invocation>>: directories removed by the handlers
    rmtree,         \* outcome of this invocation's shutil.rmtree: none, ok, error
    supplied,       \* existing directories callers passed as path
    lastList,       \* client outcome and result of the previous competitions_list
    env,            \* the credential environment variables
    cfgFiles,       \* content of the candidate credential files
    cfgPc,          \* position of load_kaggle_config
    cfgIdx,         \* candidate being scanned
    touched,        \* candidate files checked for existence or opened, in order
    env0,           \* the environment when load_kaggle_config was called
    cfgRaised       \* an exception left load_kaggle_config

toolVars ==
    <<pc, op, args, inv, authenticated, credsValid, fs, files, path, use_temp,
      resp, calls, stats, temps, result, outcome, created, removed, rmtree, supplied,
      lastList>>

cfgVars == <<env, cfgFiles, cfgPc, cfgIdx, touched, env0, cfgRaised>>

vars == <<toolVars, cfgVars>>

\* the message of a failed gate: it names the credential sources
AuthMessage ==
    <<"Kaggle API is not authenticated. Set KAGGLE_USERNAME and KAGGLE_KEY or provide ~/.kaggle/kaggle.json">>

\* ensure_authenticated(): (ok, message) and the authentication state after
ensure_authenticated(auth, valid) ==
    IF auth THEN [ok |-> TRUE, msg |-> <<>>, auth |-> TRUE]
    ELSE IF valid THEN [ok |-> TRUE, msg |-> <<>>, auth |-> TRUE]
    ELSE [ok |-> FALSE, msg |-> AuthMessage, auth |-> FALSE]

NoList == [has |-> FALSE, resp |-> NoOutcome, result |-> <<>>]

ToolInit ==
    /\ pc = "idle"
    /\ op = "competitions_list"
    /\ args = NoArgs
    /\ inv = 0
    /\ authenticated = FALSE
    /\ credsValid \in BOOLEAN
    /\ fs = InitialDirs
    /\ files \in SUBSET { SubmissionFile }
    /\ path = <<>>
    /\ use_temp = FALSE
    /\ resp = NoOutcome
    /\ calls = 0
    /\ stats = 0
    /\ temps = 0
    /\ result = <<>>
    /\ outcome = "none"
    /\ created = {}
    /\ removed = {}
    /\ rmtree = "none"
    /\ supplied = {}
    /\ lastList = NoList

\* the host calls a handler, the previous one having returned
InvokeOf(ops) ==
    /\ pc \in {"idle", "done"}
    /\ inv < MaxInvocations
    /\ \E o \in ops : \E a \in ArgsOf(o) :
          /\ op' = o
          /\ args' = a
          /\ path' = a.path
          /\ supplied' = IF o = "competition_download_files" /\ a.path \in fs
                         THEN supplied \cup { a.path } ELSE supplied
    /\ pc' = "gate"
    /\ inv' = inv + 1
    /\ use_temp' = FALSE
    /\ resp' = NoOutcome
    /\ calls' = 0
    /\ stats' = 0
    /\ temps' = 0
    /\ result' = <<>>
    /\ outcome' = "none"
    /\ rmtree' = "none"
    /\ lastList' = IF pc = "done" /\ op = "competitions_list" /\ calls = 1
                   THEN [has |-> TRUE, resp |-> resp, result |-> result]
                   ELSE lastList
    /\ UNCHANGED <<authenticated, credsValid, fs, files, created, removed>>
    /\ UNCHANGED cfgVars

Invoke == InvokeOf(Operations)

InvokeList == InvokeOf({"competitions_list"})

\* GateStep without the early return
GateStep_Ignored(g) ==
    /\ authenticated' = g.auth
    /\ pc' = "body"
    /\ UNCHANGED <<result, outcome>>

\* authenticated, msg = ensure_authenticated(); if not authenticated: return msg
GateStep(g) ==
    /\ authenticated' = g.auth
    /\ IF g.ok
       THEN pc' = "body" /\ UNCHANGED <<result, outcome>>
       ELSE pc' = "done" /\ result' = g.msg /\ outcome' = "returned"

Gate ==
    /\ pc = "gate"
    /\ GateStep(ensure_authenticated(authenticated, credsValid))
    /\ UNCHANGED <<op, args, inv, credsValid, fs, files, path, use_temp, resp,
                   calls, stats, temps, created, removed, rmtree, supplied, lastList>>
    /\ UNCHANGED cfgVars

\* the try block of data handler o: one client call of outcome r, then the
\* normalisation that gives text
DataBody(o, r, text) ==
    /\ pc = "body"
    /\ op = o
    /\ resp' = r
    /\ result' = text
    /\ calls' = calls + 1
    /\ outcome' = "returned"
    /\ pc' = "done"
    /\ UNCHANGED <<op, args, inv, authenticated, credsValid, fs, files, path,
                   use_temp, stats, temps, created, removed, rmtree, supplied, lastList>>
    /\ UNCHANGED cfgVars

CompetitionsList ==
    \E r \in ListOutcomes : DataBody("competitions_list", r, competitions_list(r))

CompetitionsListSample ==
    \E r \in ListSamples : DataBody("competitions_list", r, competitions_list(r))

CompetitionDetails ==
    \E r \in DetailOutcomes : DataBody("competition_details", r, competition_details(r))

CompetitionListFiles ==
    \E r \in FilesOutcomes :
        DataBody("competition_list_files", r, competition_list_files(r))

CompetitionSubmissions ==
    \E r \in SubmissionsOutcomes :
        DataBody("competition_submissions", r, competition_submissions(r))

CompetitionLeaderboard ==
    \E r \in LeaderboardOutcomes :
        DataBody("competition_leaderboard", r, competition_leaderboard(r))

\* if not path: a temporary directory is needed
NeedsTemp(p) == p = <<>>

\* competition_download_files, up to the try block: path = tempfile.mkdtemp()
\* creates a directory that did not exist, or raises OSError outside any try
DownloadMkdtemp ==
    /\ pc = "body"
    /\ op = "competition_download_files"
    /\ IF NeedsTemp(path)
       THEN \/ \E d \in TempNames \ fs :
                  /\ fs' = fs \cup { d }
                  /\ path' = d
                  /\ use_temp' = TRUE
                  /\ temps' = temps + 1
                  /\ created' = created \cup { <<d, inv>> }
                  /\ pc' = "call"
                  /\ UNCHANGED outcome
            \/ /\ outcome' = "escaped"
               /\ pc' = "done"
               /\ UNCHANGED <<fs, path, use_temp, temps, created>>
       ELSE /\ pc' = "call"
            /\ UNCHANGED <<fs, path, use_temp, temps, created, outcome>>
    /\ UNCHANGED <<op, args, inv, authenticated, credsValid, files, resp, calls,
                   stats, result, removed, rmtree, supplied, lastList>>
    /\ UNCHANGED cfgVars

\* the success message of competition_download_files
DownloadMessage(file_name, p) ==
    IF file_name # <<>>
    THEN <<"Downloaded file '">> \o file_name \o <<"' to ">> \o p
    ELSE <<"Downloaded all competition files to ">> \o p

DownloadError(r) == ErrorText("Error downloading competition files: ", r.msg)

\* CleansUp with the cleanup left out
CleansUp_Never(ut) == FALSE

\* CleansUp without the test of use_temp
CleansUp_Always(ut) == TRUE

\* if use_temp: the except block removes path
CleansUp(ut) == ut

\* the try block of competition_download_files: the client call
DownloadCall ==
    /\ pc = "call"
    /\ op = "competition_download_files"
    /\ \E r \in DownloadOutcomes :
          /\ resp' = r
          /\ IF ~r.raised
             THEN /\ result' = DownloadMessage(args.file_name, path)
                  /\ outcome' = "returned"
                  /\ pc' = "done"
             ELSE IF CleansUp(use_temp)
             THEN /\ pc' = "cleanup"
                  /\ UNCHANGED <<result, outcome>>
             ELSE /\ result' = DownloadError(r)
                  /\ outcome' = "returned"
                  /\ pc' = "done"
    /\ calls' = calls + 1
    /\ UNCHANGED <<op, args, inv, authenticated, credsValid, fs, files, path,
                   use_temp, stats, temps, created, removed, rmtree, supplied, lastList>>
    /\ UNCHANGED cfgVars

\* shutil.rmtree(path, ignore_errors=True): the tree is removed, or an error
\* is ignored and the directory stays; then the error text is returned
DownloadCleanup ==
    /\ pc = "cleanup"
    /\ \/ /\ fs' = fs \ { path }
          /\ removed' = removed \cup { <<path, inv>> }
          /\ rmtree' = "ok"
       \/ /\ rmtree' = "error"
          /\ UNCHANGED <<fs, removed>>
    /\ result' = DownloadError(resp)
    /\ outcome' = "returned"
    /\ pc' = "done"
    /\ UNCHANGED <<op, args, inv, authenticated, credsValid, files, path, use_temp,
                   resp, calls, stats, temps, created, supplied, lastList>>
    /\ UNCHANGED cfgVars

\* IsFile without the check
IsFile_Always(p, fl) == TRUE

\* os.path.isfile(file_path)
IsFile(p, fl) == p \in fl

FileNotFound(p) == <<"Error: File not found at ">> \o p

SubmitError(msg) == ErrorText("Error submitting to competition: ", msg)

\* competition_submit: the check that the file exists
SubmitCheck ==
    /\ pc = "body"
    /\ op = "competition_submit"
    /\ stats' = stats + 1
    /\ IF ~IsFile(args.file_path, files)
       THEN /\ result' = FileNotFound(args.file_path)
            /\ outcome' = "returned"
            /\ pc' = "done"
       ELSE /\ pc' = "stat"
            /\ UNCHANGED <<result, outcome>>
    /\ UNCHANGED <<op, args, inv, authenticated, credsValid, fs, files, path,
                   use_temp, resp, calls, temps, created, removed, rmtree, supplied,
                   lastList>>
    /\ UNCHANGED cfgVars

\* os.path.getsize and os.path.getmtime: they succeed, or raise OSError
\* inside the try block
SubmitStat ==
    /\ pc = "stat"
    /\ stats' = stats + 1
    /\ \/ /\ pc' = "call"
          /\ UNCHANGED <<result, outcome>>
       \/ /\ result' = SubmitError(<<"stat failed">>)
          /\ outcome' = "returned"
          /\ pc' = "done"
    /\ UNCHANGED <<op, args, inv, authenticated, credsValid, fs, files, path,
                   use_temp, resp, calls, temps, created, removed, rmtree, supplied,
                   lastList>>
    /\ UNCHANGED cfgVars

\* response = api.competition_submit(file_path, message, competition)
SubmitCall ==
    /\ pc = "call"
    /\ op = "competition_submit"
    /\ \E r \in SubmitOutcomes :
          /\ resp' = r
          /\ result' = IF r.raised THEN SubmitError(r.msg) ELSE SubmitStatus(r.val)
    /\ calls' = calls + 1
    /\ outcome' = "returned"
    /\ pc' = "done"
    /\ UNCHANGED <<op, args, inv, authenticated, credsValid, fs, files, path,
                   use_temp, stats, temps, created, removed, rmtree, supplied, lastList>>
    /\ UNCHANGED cfgVars

----------------------------------------------------------------------------
(* The credential resolver, load_kaggle_config of src/server.py *)

\* kaggle_locations: ~/.kaggle/kaggle.json, ~/.config/kaggle/kaggle.json
NumLocations == 2

Unset == [set |-> FALSE, v |-> <<>>]

EnvSet(cs) == [set |-> TRUE, v |-> cs]

\* os.environ.get(name) is truthy: the variable is set and not empty
EnvTruthy(x) == x.set /\ Len(x.v) > 0

\* NeedsScan without the test of the environment
NeedsScan_Always(e) == TRUE

\* if not os.environ.get("KAGGLE_USERNAME") or not os.environ.get("KAGGLE_KEY")
NeedsScan(e) == ~EnvTruthy(e.KAGGLE_USERNAME) \/ ~EnvTruthy(e.KAGGLE_KEY)

\* name in credentials: the exception it raises, or the answer
Contains(v, name) ==
    CASE v.t = "dict" -> [exc |-> FALSE, yes |-> IndexOf(v.keys, name) # 0]
      [] v.t = "list" ->
            [exc |-> FALSE,
             yes |-> \E i \in 1..Len(v.items) : v.items[i] = PyStr(<<name>>)]
      [] v.t = "str" ->
            [exc |-> FALSE, yes |-> \E i \in 1..Len(v.s) : v.s[i] = name]
      [] OTHER -> [exc |-> TRUE, yes |-> FALSE]

\* os.environ[name] = credentials[key]: TypeError unless credentials is a
\* dict and the value a str
CanAssign(v, key) == v.t = "dict" /\ v.items[IndexOf(v.keys, key)].t = "str"

\* the try block for one existing candidate: open, json.load, the test for
\* the two fields, the two assignments.  exc: an exception was raised;
\* found: the break was reached
LoadCandidate(file, e) ==
    IF ~file.readable \/ ~file.parses
    THEN [exc |-> TRUE, found |-> FALSE, env |-> e]
    ELSE LET credentials == file.json
             hasUser == Contains(credentials, "username")
             hasKey == Contains(credentials, "key")
         IN  IF hasUser.exc THEN [exc |-> TRUE, found |-> FALSE, env |-> e]
             ELSE IF ~hasUser.yes THEN [exc |-> FALSE, found |-> FALSE, env |-> e]
             ELSE IF hasKey.exc THEN [exc |-> TRUE, found |-> FALSE, env |-> e]
             ELSE IF ~hasKey.yes THEN [exc |-> FALSE, found |-> FALSE, env |-> e]
             ELSE IF ~CanAssign(credentials, "username")
             THEN [exc |-> TRUE, found |-> FALSE, env |-> e]
             ELSE LET e1 == [e EXCEPT !.KAGGLE_USERNAME =
                               EnvSet(credentials.items[IndexOf(credentials.keys, "username")].s)]
                  IN  IF ~CanAssign(credentials, "key")
                      THEN [exc |-> TRUE, found |-> FALSE, env |-> e1]
                      ELSE [exc |-> FALSE, found |-> TRUE,
                            env |-> [e1 EXCEPT !.KAGGLE_KEY =
                               EnvSet(credentials.items[IndexOf(credentials.keys, "key")].s)]]

\* Caught without the except clause
Caught_Never(r) == FALSE

\* except Exception as e: logger.warning(...)
Caught(r) == TRUE

\* contents a candidate file can have
FileMissing ==
    [exists |-> FALSE, readable |-> FALSE, parses |-> FALSE, json |-> PyNone]

FileUnreadable ==
    [exists |-> TRUE, readable |-> FALSE, parses |-> FALSE, json |-> PyNone]

FileMalformed ==
    [exists |-> TRUE, readable |-> TRUE, parses |-> FALSE, json |-> PyNone]

FileJson(v) == [exists |-> TRUE, readable |-> TRUE, parses |-> TRUE, json |-> v]

\* the credentials object stored at candidate i
Credentials(i) ==
    PyDict(<<"username", "key">>, <<PyStr(<<"u", ToString(i)>>), PyStr(<<"k", ToString(i)>>)>>)

FileContents(i) ==
    { FileMissing, FileUnreadable, FileMalformed,
      FileJson(Credentials(i)),
      FileJson(PyDict(<<"username">>, <<PyStr(<<"u", ToString(i)>>)>>)),
      FileJson(PyDict(<<"username", "key">>, <<PyStr(<<"u", ToString(i)>>), PyNone>>)),
      FileJson(PyList(<<PyStr(<<"username">>), PyStr(<<"key">>)>>)),
      FileJson(PyNone) }

EnvValues(name) == { Unset, EnvSet(<<>>), EnvSet(<<name>>) }

CfgInit ==
    /\ env \in [KAGGLE_USERNAME : EnvValues("env-user"), KAGGLE_KEY : EnvValues("env-key")]
    /\ cfgFiles \in { f \in [1..NumLocations -> UNION { FileContents(i) : i \in 1..NumLocations }] :
                        \A i \in 1..NumLocations : f[i] \in FileContents(i) }
    /\ cfgPc = "start"
    /\ cfgIdx = 0
    /\ touched = <<>>
    /\ env0 = env
    /\ cfgRaised = FALSE

\* the test of the environment at the head of load_kaggle_config
CfgStart ==
    /\ cfgPc = "start"
    /\ IF NeedsScan(env)
       THEN cfgPc' = "scan" /\ cfgIdx' = 1
       ELSE cfgPc' = "done" /\ cfgIdx' = cfgIdx
    /\ UNCHANGED <<env, cfgFiles, touched, env0, cfgRaised>>
    /\ UNCHANGED toolVars

\* one turn of the for loop over kaggle_locations
CfgScan ==
    /\ cfgPc = "scan"
    /\ cfgIdx <= NumLocations
    /\ touched' = Append(touched, cfgIdx)
    /\ IF ~cfgFiles[cfgIdx].exists
       THEN /\ cfgIdx' = cfgIdx + 1
            /\ UNCHANGED <<env, cfgPc, cfgRaised>>
       ELSE LET r == LoadCandidate(cfgFiles[cfgIdx], env)
            IN  /\ env' = r.env
                /\ IF r.exc /\ ~Caught(r)
                   THEN cfgRaised' = TRUE /\ cfgPc' = "done" /\ cfgIdx' = cfgIdx
                   ELSE IF r.found
                   THEN cfgPc' = "done" /\ cfgIdx' = cfgIdx /\ UNCHANGED cfgRaised
                   ELSE cfgIdx' = cfgIdx + 1 /\ UNCHANGED <<cfgPc, cfgRaised>>
    /\ UNCHANGED <<cfgFiles, env0>>
    /\ UNCHANGED toolVars

\* the for loop is exhausted
CfgEnd ==
    /\ cfgPc = "scan"
    /\ cfgIdx > NumLocations
    /\ cfgPc' = "done"
    /\ UNCHANGED <<env, cfgFiles, cfgIdx, touched, env0, cfgRaised>>
    /\ UNCHANGED toolVars

----------------------------------------------------------------------------
(* Specifications *)

\* the resolver has run and left the environment as it is
CfgParked ==
    /\ env = [KAGGLE_USERNAME |-> Unset, KAGGLE_KEY |-> Unset]
    /\ cfgFiles = [i \in 1..NumLocations |-> FileMissing]
    /\ cfgPc = "done"
    /\ cfgIdx = 0
    /\ touched = <<>>
    /\ env0 = env
    /\ cfgRaised = FALSE

\* no handler has been invoked yet
ToolParked ==
    /\ ToolInit
    /\ credsValid = FALSE
    /\ files = {}

Init == ToolInit /\ CfgParked

Next ==
    \/ Invoke
    \/ Gate
    \/ CompetitionsListSample
    \/ CompetitionDetails
    \/ CompetitionListFiles
    \/ CompetitionSubmissions
    \/ CompetitionLeaderboard
    \/ DownloadMkdtemp
    \/ DownloadCall
    \/ DownloadCleanup
    \/ SubmitCheck
    \/ SubmitStat
    \/ SubmitCall

Spec == Init /\ [][Next]_vars

\* competitions_list alone, over every list of client records
NextList == InvokeList \/ Gate \/ CompetitionsList

InitList == Init /\ files = {}

SpecList == InitList /\ [][NextList]_vars

InitCfg == ToolParked /\ CfgInit

NextCfg == CfgStart \/ CfgScan \/ CfgEnd

SpecCfg == InitCfg /\ [][NextCfg]_vars

----------------------------------------------------------------------------
(* Reading a result back: the keys and the values of a JSON text *)

\* position i of q holds a character escaped by a backslash: the run of
\* backslashes that ends just before i has odd length
Escaped(q, i) ==
    LET run == CHOOSE k \in 0..(i - 1) :
                  /\ \A j \in (i - k)..(i - 1) : q[j] = "\\"
                  /\ (k = i - 1 \/ q[i - k - 1] # "\\")
    IN  run % 2 = 1

\* the positions of the quotes that open or close a string literal
Quotes(q) == { i \in 1..Len(q) : q[i] = "\"" /\ ~Escaped(q, i) }

\* the elements of S in increasing order, rank[i] being the number of
\* elements of S below i
Ranked(S, rank) == [k \in 1..Cardinality(S) |-> CHOOSE i \in S : rank[i] = k - 1]

\* the elements of a set of positions, in increasing order
Ascending(S) == Ranked(S, [i \in S |-> Cardinality({ j \in S : j < i })])

\* the positions of q outside string literals, qs being the quotes of q
OutsideQuotes(q, qs) ==
    { i \in 1..Len(q) : i \notin qs /\ Cardinality({ p \in qs : p < i }) % 2 = 0 }

\* the positions of q that lie outside string literals
OutsideStrings(q) == OutsideQuotes(q, Quotes(q))

Punctuation == { "[", "]", "{", "}", ",", "\n", "  ", "null", "[]", "{}" }

\* the positions of the keys of a JSON text, in the order they are written
KeysAmong(q, out) == Ascending({ i \in out : q[i] \notin Punctuation })

KeyPositions(q) == KeysAmong(q, OutsideStrings(q))

\* the number of objects opened in a JSON text
ObjectsAmong(q, out) == Cardinality({ i \in out : q[i] = "{" })

JsonObjects(q) == ObjectsAmong(q, OutsideStrings(q))

\* the characters of the string literal whose first character is at i
RECURSIVE ReadString(_, _)
ReadString(q, i) ==
    IF i > Len(q) \/ q[i] = "\"" THEN <<>>
    ELSE IF q[i] = "\\" THEN <<q[i + 1]>> \o ReadString(q, i + 2)
    ELSE <<q[i]>> \o ReadString(q, i + 1)

\* the scalar written at position p
DecodeAt(q, p) ==
    IF p > Len(q) THEN PyObj(<<>>, <<>>)
    ELSE IF q[p] = "null" THEN PyNone
    ELSE IF q[p] = "\"" THEN PyStr(ReadString(q, p + 1))
    ELSE PyObj(<<>>, <<>>)

\* the value written after the key at position p
JsonValue(q, p) == DecodeAt(q, p + 1)

----------------------------------------------------------------------------
(* The claims *)

GateFailed == pc \notin {"idle", "gate"} /\ ~authenticated

\* C1. Every competition tool operation ends by returning a single string:
\* no exception leaves the handler, whatever the client call or a local
\* step of the handler (creating the temporary directory, the file stat,
\* the JSON serialisation) does.
C1_NoExceptionEscapes == pc = "done" => outcome = "returned"

\* C2. The gate is the first step of every operation: nothing has been done
\* when it runs; and when it fails the operation returns the gate's message
\* as its whole result, having called the client zero times, created no
\* temporary directory, inspected no local file and removed nothing.
C2_GateShortCircuits ==
    /\ pc = "gate" =>
          calls = 0 /\ temps = 0 /\ stats = 0 /\ rmtree = "none" /\ outcome = "none"
    /\ GateFailed =>
          /\ pc = "done"
          /\ outcome = "returned"
          /\ result = ensure_authenticated(authenticated, credsValid).msg
          /\ calls = 0
          /\ temps = 0
          /\ stats = 0
          /\ rmtree = "none"

C2_Witness ==
    /\ pc = "done"
    /\ op = "competition_download_files"
    /\ args.path = <<>>
    /\ ~authenticated
    /\ result = AuthMessage

\* field f of a leaderboard entry, an object or a dict; null when missing
C3_Field(entry, f) ==
    IF \A i \in 1..Len(entry.keys) : entry.keys[i] # f THEN PyNone
    ELSE LET v == entry.items[CHOOSE i \in 1..Len(entry.keys) : entry.keys[i] = f]
         IN  IF f = "submissionDate" THEN PyStr(v.s) ELSE v

C3_Fields == <<"teamId", "teamName", "submissionDate", "score", "rank">>

\* the serialised projection of a list of leaderboard entries
C3_Projected(l) ==
    JsonEncode(PyList([i \in 1..Len(l.items) |->
                  PyDict(C3_Fields,
                         [j \in 1..Len(C3_Fields) |-> C3_Field(l.items[i], C3_Fields[j])])]),
               0)

\* C3. competition_leaderboard past the gate: a list of entries is returned
\* as the serialised list of their projections to teamId, teamName,
\* submissionDate, score, rank; a dict holding that list under 'submissions'
\* gives the same text.
C3_LeaderboardProjected ==
    (pc = "done" /\ op = "competition_leaderboard" /\ calls = 1 /\ ~resp.raised) =>
        /\ resp.val.t = "list" => result = C3_Projected(resp.val)
        /\ (DictHas(resp.val, "submissions") /\ resp.val.items[1].t = "list") =>
              result = C3_Projected(resp.val.items[1])

\* C4. competition_leaderboard past the gate: a raw string of the client is
\* returned character for character.
C4_RawStringVerbatim ==
    (pc = "done" /\ op = "competition_leaderboard" /\ calls = 1 /\ ~resp.raised
       /\ resp.val.t = "str") =>
        result = resp.val.s

\* C5. competition_download_files with no path, past the gate: the
\* invocation works in a directory it created itself, which did not exist
\* before; when the client call raises, the removal of that directory is
\* attempted before the operation returns, the directory is gone unless the
\* removal itself failed, and in both cases the operation returns the text
\* "Error downloading competition files: " followed by the client's error.
C5_TempDirCleanup ==
    (op = "competition_download_files" /\ args.path = <<>>) =>
        /\ pc \in {"call", "cleanup"} =>
              /\ use_temp
              /\ temps = 1
              /\ <<path, inv>> \in created
              /\ path \notin supplied
              /\ path \in fs
        /\ (pc = "done" /\ calls = 1 /\ resp.raised) =>
              /\ outcome = "returned"
              /\ result = <<"Error downloading competition files: ">> \o resp.msg
              /\ rmtree \in {"ok", "error"}
              /\ rmtree = "ok" => path \notin fs

C5_Witness ==
    /\ pc = "done"
    /\ op = "competition_download_files"
    /\ args.path = <<>>
    /\ resp.raised
    /\ rmtree = "ok"
    /\ path \notin fs
    /\ result[1] = "Error downloading competition files: "

\* one step of the handlers, as far as directories are concerned
C6_Step ==
    /\ \A d \in fs' \ fs :
          /\ op = "competition_download_files"
          /\ args.path = <<>>
          /\ <<d, inv>> \in created' \ created
    /\ \A d \in fs \ fs' :
          /\ op = "competition_download_files"
          /\ args.path = <<>>
          /\ <<d, inv>> \in created
          /\ calls = 1
          /\ resp.raised
    /\ \A d \in supplied' : d \in fs'

\* C6. competition_download_files removes no directory it did not create:
\* a directory appears only in an invocation whose path argument is empty,
\* a directory disappears only in the invocation that created it and only
\* after its client call raised, and every existing directory a caller
\* passed as path stays in place.
C6_ScopedSideEffects == [][C6_Step]_vars

C6_Witness ==
    /\ pc = "done"
    /\ op = "competition_download_files"
    /\ args.path = <<"/data">>
    /\ resp.raised
    /\ <<"/data">> \in fs
    /\ removed # {}

\* C7. competition_submit past the gate with a file_path that names no
\* existing file returns "Error: File not found at <file_path>" and the
\* invocation makes no client call.
C7_MissingFileFailsFast ==
    (op = "competition_submit" /\ pc # "idle" /\ args.file_path \notin files) =>
        /\ calls = 0
        /\ pc \notin {"stat", "call"}
        /\ (pc = "done" /\ authenticated) =>
              /\ outcome = "returned"
              /\ result = <<"Error: File not found at ">> \o args.file_path

C7_Witness ==
    /\ pc = "done"
    /\ op = "competition_submit"
    /\ authenticated
    /\ args.file_path = MissingFile
    /\ calls = 0
    /\ result = <<"Error: File not found at ", "/nofile.csv">>

BothSet(e) == e.KAGGLE_USERNAME.set /\ e.KAGGLE_KEY.set

BothNonEmpty(e) ==
    /\ BothSet(e)
    /\ e.KAGGLE_USERNAME.v # <<>>
    /\ e.KAGGLE_KEY.v # <<>>

\* C8, as stated. load_kaggle_config with both environment variables set
\* does nothing: no candidate file is touched and both variables keep their
\* values.
C8_SetEnvironmentUntouched ==
    BothSet(env0) => (touched = <<>> /\ env = env0)

\* C8, amended. load_kaggle_config with both environment variables set to
\* non-empty values does nothing: no candidate file is touched, both
\* variables keep their values, nothing is raised.
C8_NonEmptyEnvironmentUntouched ==
    BothNonEmpty(env0) =>
        /\ touched = <<>>
        /\ env = env0
        /\ ~cfgRaised
        /\ cfgPc \in {"start", "done"}

C8_Witness ==
    /\ cfgPc = "done"
    /\ BothNonEmpty(env0)
    /\ cfgFiles[1] = FileJson(Credentials(1))
    /\ touched = <<>>
    /\ env = env0

NoneSet(e) == ~e.KAGGLE_USERNAME.set /\ ~e.KAGGLE_KEY.set

EnvFrom(i) ==
    [KAGGLE_USERNAME |-> EnvSet(<<"u", ToString(i)>>),
     KAGGLE_KEY |-> EnvSet(<<"k", ToString(i)>>)]

\* C9. load_kaggle_config with no credential variable set: the candidates
\* are tried in their fixed order; a first candidate that exists but cannot
\* be read or parsed raises nothing and the second candidate is tried; a
\* second candidate holding a JSON object with (string) username and key
\* then sets both variables; scanning stops at the first candidate that
\* yields credentials.
C9_FallsThroughToSecond ==
    /\ ~cfgRaised
    /\ touched \in { <<>>, <<1>>, <<1, 2>> }
    /\ (cfgPc = "done" /\ NoneSet(env0)) =>
          /\ (cfgFiles[1].exists /\ (~cfgFiles[1].readable \/ ~cfgFiles[1].parses)) =>
                /\ touched = <<1, 2>>
                /\ cfgFiles[2] = FileJson(Credentials(2)) => env = EnvFrom(2)
          /\ cfgFiles[1] = FileJson(Credentials(1)) =>
                /\ touched = <<1>>
                /\ env = EnvFrom(1)

C9_Witness ==
    /\ cfgPc = "done"
    /\ NoneSet(env0)
    /\ cfgFiles[1] = FileMalformed
    /\ cfgFiles[2] = FileJson(Credentials(2))
    /\ touched = <<1, 2>>
    /\ env = EnvFrom(2)

C10_Fields ==
    <<"ref", "title", "url", "category", "deadline", "reward", "teamCount",
      "userHasEntered", "description">>

C10_KeyAtoms ==
    <<"\"ref\": ", "\"title\": ", "\"url\": ", "\"category\": ", "\"deadline\": ",
      "\"reward\": ", "\"teamCount\": ", "\"userHasEntered\": ",
      "\"description\": ">>

\* what the text must hold for field f of the client's record comp
C10_Expected(comp, f) ==
    IF \A i \in 1..Len(comp.keys) : comp.keys[i] # f THEN PyNone
    ELSE LET v == comp.items[CHOOSE i \in 1..Len(comp.keys) : comp.keys[i] = f]
         IN  IF f = "deadline" THEN PyStr(v.s) ELSE v

\* the text q holds n objects whose keys, at positions kp, are the fixed
\* fields in their order, each with the value of the client's record
C10_Reads(q, recs, n, w, kp) ==
    /\ JsonObjects(q) = n
    /\ Len(kp) = n * w
    /\ \A i \in 1..n : \A j \in 1..w :
          /\ q[kp[(i - 1) * w + j]] = C10_KeyAtoms[j]
          /\ JsonValue(q, kp[(i - 1) * w + j]) = C10_Expected(recs[i], C10_Fields[j])

\* C10. competitions_list past the gate, the client returning a list of n
\* records: the result is the text of a list of exactly n objects, in the
\* client's order, each with the keys ref, title, url, category, deadline,
\* reward, teamCount, userHasEntered, description in that order; each value
\* read back from the text is the record's own field, or null where the
\* record lacks the field; and the text equals that of the previous
\* invocation when the client's output is the same.
C10_ListNormalized ==
    (pc = "done" /\ op = "competitions_list" /\ calls = 1 /\ ~resp.raised
       /\ resp.val.t = "list") =>
        /\ outcome = "returned"
        /\ C10_Reads(result, resp.val.items, Len(resp.val.items), Len(C10_Fields),
                     KeyPositions(result))
        /\ (lastList.has /\ lastList.resp = resp) => result = lastList.result

C10_Witness ==
    /\ pc = "done"
    /\ op = "competitions_list"
    /\ calls = 1
    /\ resp = Returned(PyList(<<CompetitionObj("\"", {}), CompetitionObj("b", {"reward"})>>))
    /\ lastList.has
    /\ lastList.resp = resp
    /\ JsonValue(result, KeyPositions(result)[Len(C10_Fields) + 6]) = PyNone
    /\ JsonValue(result, KeyPositions(result)[6]) = PyStr(<<"reward", "\"">>)

====
